---- MODULE Spec2Model ----
(***************************************************************************)
(* Model of process_text_file (src/app.py): the line-stream transformer    *)
(* that copies a fixed-width record file, rewriting two field windows on   *)
(* matching 'T' lines between the "DCIR" header block and the "99999"      *)
(* terminator.                                                             *)
(*                                                                         *)
(* A line is a sequence of one-character strings; Python offset k is       *)
(* sequence index k+1.  The characters of the model are those of Alphabet; *)
(* the number grammars below are Python's int() and float() restricted to  *)
(* texts over that alphabet (no exponent letter, no underscore).           *)
(***************************************************************************)
EXTENDS Integers, Sequences, FiniteSets, TLC

VARIABLES lines, bar_list_set, idx, output_lines, found_dcir,
          processing_data, header_lines_remaining, pc, result, trace, calls

vars == <<lines, bar_list_set, idx, output_lines, found_dcir,
          processing_data, header_lines_remaining, pc, result, trace, calls>>

-----------------------------------------------------------------------------
(* Characters and slices *)

Ws == {" ", "\t"}

Digits == {"0", "1", "2", "3", "4", "5", "6", "7", "8", "9"}

Min(a, b) == IF a < b THEN a ELSE b

DigitVal(c) ==
  CASE c = "0" -> 0 [] c = "1" -> 1 [] c = "2" -> 2 [] c = "3" -> 3
    [] c = "4" -> 4 [] c = "5" -> 5 [] c = "6" -> 6 [] c = "7" -> 7
    [] c = "8" -> 8 [] c = "9" -> 9

DigitChar(d) == <<"0", "1", "2", "3", "4", "5", "6", "7", "8", "9">>[d + 1]

Lower(c) ==
  CASE c = "I" -> "i" [] c = "N" -> "n" [] c = "F" -> "f" [] c = "A" -> "a"
    [] OTHER -> c

\* Python s[a:b] for 0 <= a <= b: the characters at offsets a .. b-1 that exist.
Slice(s, a, b) == SubSeq(s, a + 1, Min(b, Len(s)))

\* Python s[a:]
SliceFrom(s, a) == SubSeq(s, a + 1, Len(s))

\* str.startswith
StartsWith(s, p) == Len(s) >= Len(p) /\ SubSeq(s, 1, Len(p)) = p

\* list.index(x): the FIRST position (0-based) holding a value equal to x.
ListIndex(l, x) == (CHOOSE i \in 1..Len(l) : l[i] = x /\ \A j \in 1..(i - 1) : l[j] # x) - 1

RECURSIVE LStrip(_, _)
LStrip(s, cs) == IF Len(s) > 0 /\ s[1] \in cs THEN LStrip(Tail(s), cs) ELSE s

RECURSIVE RStrip(_, _)
RStrip(s, cs) ==
  IF Len(s) > 0 /\ s[Len(s)] \in cs THEN RStrip(SubSeq(s, 1, Len(s) - 1), cs) ELSE s

\* str.strip()
Strip(s) == LStrip(RStrip(s, Ws), Ws)

rtrim(s) == RStrip(s, {" "})

is_blank(s) == Len(s) > 0 /\ \A i \in 1..Len(s) : s[i] \in Ws

-----------------------------------------------------------------------------
(* Number parsing: int(x.strip()) and float(x) *)

AllDigits(s) == Len(s) > 0 /\ \A i \in 1..Len(s) : s[i] \in Digits

RECURSIVE DigitsVal(_)
DigitsVal(s) ==
  IF Len(s) = 0 THEN 0
  ELSE 10 * DigitsVal(SubSeq(s, 1, Len(s) - 1)) + DigitVal(s[Len(s)])

Unsigned(t) == IF Len(t) > 0 /\ t[1] \in {"+", "-"} THEN Tail(t) ELSE t

IsNeg(t) == Len(t) > 0 /\ t[1] = "-"

\* int(s.strip()): ok = FALSE stands for ValueError.
ParseInt(s) ==
  LET t == Strip(s)
      body == Unsigned(t)
  IN IF AllDigits(body)
       THEN [ok |-> TRUE, val |-> IF IsNeg(t) THEN 0 - DigitsVal(body) ELSE DigitsVal(body)]
       ELSE [ok |-> FALSE, val |-> 0]

Pow10(n) == CASE n = 0 -> 1 [] n = 1 -> 10 [] n = 2 -> 100 [] n = 3 -> 1000
              [] n = 4 -> 10000 [] n = 5 -> 100000 [] n = 6 -> 1000000
              [] n = 7 -> 10000000 [] n = 8 -> 100000000

\* float(s): ok = FALSE stands for ValueError.  A finite value is
\* (-1)^neg * mant / 10^scale; the sign is kept apart because -0.0 prints its sign.
ParseFloat(s) ==
  LET t == Strip(s)
      body == Unsigned(t)
      low == [i \in 1..Len(body) |-> Lower(body[i])]
      dots == {i \in 1..Len(body) : body[i] = "."}
      dot == IF dots = {} THEN Len(body) + 1 ELSE CHOOSE i \in dots : TRUE
      ip == SubSeq(body, 1, dot - 1)
      fp == SubSeq(body, dot + 1, Len(body))
      bad == [ok |-> FALSE, kind |-> "none", neg |-> FALSE, mant |-> 0, scale |-> 0]
  IN IF low = <<"i", "n", "f">>
       THEN [ok |-> TRUE, kind |-> "inf", neg |-> IsNeg(t), mant |-> 0, scale |-> 0]
     ELSE IF low = <<"n", "a", "n">>
       THEN [ok |-> TRUE, kind |-> "nan", neg |-> IsNeg(t), mant |-> 0, scale |-> 0]
     ELSE IF /\ Cardinality(dots) <= 1
             /\ Len(ip) + Len(fp) > 0
             /\ \A i \in 1..Len(ip) : ip[i] \in Digits
             /\ \A i \in 1..Len(fp) : fp[i] \in Digits
       THEN [ok |-> TRUE, kind |-> "fin", neg |-> IsNeg(t),
             mant |-> DigitsVal(ip \o fp), scale |-> Len(fp)]
     ELSE bad

\* Mutant of Div50: the divisor is 5.0.
Div50_By5(v) == IF v.kind = "fin" THEN [v EXCEPT !.mant = 2 * v.mant, !.scale = v.scale + 1] ELSE v

\* value / 50.0
Div50(v) == IF v.kind = "fin" THEN [v EXCEPT !.mant = 2 * v.mant, !.scale = v.scale + 2] ELSE v

RECURSIVE IntDigits(_)
IntDigits(n) ==
  IF n < 10 THEN <<DigitChar(n)>> ELSE IntDigits(n \div 10) \o <<DigitChar(n % 10)>>

\* exactly w digits, zero-padded on the left
FixedDigits(n, w) == [i \in 1..w |-> DigitChar((n \div Pow10(w - i)) % 10)]

\* f"{value:.6f}": the value rounded to 6 decimals, in fixed-point notation.
\* The integer part and the 6-digit fraction are computed apart (32-bit integers).
Format6f(v) ==
  IF v.kind = "nan" THEN <<"n", "a", "n">>
  ELSE IF v.kind = "inf" THEN (IF v.neg THEN <<"-">> ELSE <<>>) \o <<"i", "n", "f">>
  ELSE LET den == Pow10(v.scale)
           ip == v.mant \div den
           rem == v.mant % den
           d == Pow10(v.scale - 6)
           fr == IF v.scale <= 6 THEN rem * Pow10(6 - v.scale) ELSE (2 * rem + d) \div (2 * d)
           carry == IF fr = Pow10(6) THEN 1 ELSE 0
       IN (IF v.neg THEN <<"-">> ELSE <<>>)
            \o IntDigits(ip + carry) \o <<".">> \o FixedDigits(fr % Pow10(6), 6)

format_float_custom(v) == Slice(Format6f(v), 0, 6)

-----------------------------------------------------------------------------
(* The per-line logic of the data state *)

\* int(line[0:6].strip()), 0 when the conversion raises ValueError
bar1(line) == LET r == ParseInt(Slice(line, 0, 6)) IN IF r.ok THEN r.val ELSE 0

\* int(line[7:12].strip()), 0 when the conversion raises ValueError
bar2(line) == LET r == ParseInt(Slice(line, 7, 12)) IN IF r.ok THEN r.val ELSE 0

\* Mutant of bar_match: both bars have to be in the set.
bar_match_And(line, ids) == bar1(line) \in ids /\ bar2(line) \in ids

bar_match(line, ids) == bar1(line) \in ids \/ bar2(line) \in ids

\* Mutant of TLineTest: the length test is len(line) >= 41.
TLineTest_OffByOne(l) ==
  IF Len(l) >= 41
    THEN IF 16 < Len(l) THEN (IF l[17] = "T" THEN "yes" ELSE "no") ELSE "IndexError"
    ELSE "no"

\* Mutant of TLineTest: the length test is dropped, line[16] is read on every line.
TLineTest_NoLengthTest(l) ==
  IF 16 < Len(l) THEN (IF l[17] = "T" THEN "yes" ELSE "no") ELSE "IndexError"

\* len(line) >= 42 and line[16] == 'T', evaluated left to right: line[16] is read
\* only past the length test, and reading it beyond the end raises IndexError.
TLineTest(l) ==
  IF Len(l) >= 42
    THEN IF 16 < Len(l) THEN (IF l[17] = "T" THEN "yes" ELSE "no") ELSE "IndexError"
    ELSE "no"

IsTLine(l) == TLineTest(l) = "yes"

\* Mutant of WriteWindow: the window is replaced by the formatted text as it is,
\* without the padding to 6 characters (a splice instead of 6 assignments).
WriteWindow_Splice(ml, off, formatted) ==
  SubSeq(ml, 1, off) \o formatted \o SubSeq(ml, off + 7, Len(ml))

\* for i in range(6): modified_line[off + i] = formatted[i] if i < len(formatted) else ' '
WriteWindow(ml, off, formatted) ==
  [k \in 1..Len(ml) |->
     IF k - 1 >= off /\ k - 1 < off + 6
       THEN IF k - 1 - off < Len(formatted) THEN formatted[k - off] ELSE " "
       ELSE ml[k]]

\* if is_blank(field): try: write format(float(rtrim(src)) / 50.0) except ValueError: pass
RewriteWindow(ml, field, src, off) ==
  IF is_blank(field)
    THEN LET v == ParseFloat(rtrim(src))
         IN IF v.ok THEN WriteWindow(ml, off, format_float_custom(Div50(v))) ELSE ml
    ELSE ml

\* Mutant of ModifiedLine: the results are written at the offsets of the source
\* windows (23 and 35) instead of the target windows.
ModifiedLine_WritesSource(l) ==
  RewriteWindow(RewriteWindow(l, Slice(l, 17, 23), Slice(l, 23, 29), 23),
                Slice(l, 29, 35), Slice(l, 35, 41), 35)

\* Mutant of ModifiedLine: the second rewrite is an elif of the first.
ModifiedLine_Elif(l) ==
  IF is_blank(Slice(l, 17, 23))
    THEN RewriteWindow(l, Slice(l, 17, 23), Slice(l, 23, 29), 17)
    ELSE RewriteWindow(l, Slice(l, 29, 35), Slice(l, 35, 41), 29)

\* Mutant of ModifiedLine: one try block around both rewrites, so that a
\* ValueError of the first conversion skips the second rewrite too.
ModifiedLine_OneTry(l) ==
  IF is_blank(Slice(l, 17, 23)) /\ ~ParseFloat(rtrim(Slice(l, 23, 29))).ok
    THEN l
    ELSE RewriteWindow(RewriteWindow(l, Slice(l, 17, 23), Slice(l, 23, 29), 17),
                       Slice(l, 29, 35), Slice(l, 35, 41), 29)

\* the line appended by the bar_match branch
ModifiedLine(line) ==
  LET field18_23 == Slice(line, 17, 23)
      field24_29 == Slice(line, 23, 29)
      field30_35 == Slice(line, 29, 35)
      field36_41 == Slice(line, 35, 41)
  IN RewriteWindow(RewriteWindow(line, field18_23, field24_29, 17),
                   field30_35, field36_41, 29)

\* The index accesses of the data branch that Python would answer with an
\* IndexError, each under the conditions in which the code reaches it:
\* line[16] past the length test, modified_line[17 + i] and modified_line[29 + i]
\* inside the two rewrites.  No handler of process_text_file catches IndexError.
Faults(l, ids) ==
  \/ TLineTest(l) = "IndexError"
  \/ /\ IsTLine(l)
     /\ bar_match(l, ids)
     /\ \/ is_blank(Slice(l, 17, 23)) /\ ParseFloat(rtrim(Slice(l, 23, 29))).ok /\ ~(22 < Len(l))
        \/ is_blank(Slice(l, 29, 35)) /\ ParseFloat(rtrim(Slice(l, 35, 41))).ok /\ ~(34 < Len(l))

\* input_text.splitlines(): the pieces between line feeds, without an empty
\* piece after a final line feed ("\n" is the only separator of the alphabet)
RECURSIVE SplitLines(_)
SplitLines(t) ==
  LET nls == {i \in 1..Len(t) : t[i] = "\n"}
      p == CHOOSE i \in nls : \A j \in nls : i <= j
  IN IF Len(t) = 0 THEN <<>>
     ELSE IF nls = {} THEN <<t>>
     ELSE <<SubSeq(t, 1, p - 1)>> \o SplitLines(SubSeq(t, p + 1, Len(t)))

\* "\n".join(output_lines)
RECURSIVE Join(_)
Join(ls) ==
  IF Len(ls) = 0 THEN <<>>
  ELSE IF Len(ls) = 1 THEN ls[1]
  ELSE ls[1] \o <<"\n">> \o Join(Tail(ls))

-----------------------------------------------------------------------------
(* Inputs of the model *)

MaxLines == 4

TargetIds == {0, 100, 200}

Sp(n) == [i \in 1..n |-> " "]

MkLine(b1, b2, marker, a, c, b, d, tail) ==
  b1 \o <<" ">> \o b2 \o Sp(4) \o <<marker>> \o a \o c \o b \o d \o tail

F500 == <<" ", " ", " ", "5", "0", "0">>
FNeg5 == <<" ", " ", " ", " ", "-", "5">>
F125 == <<" ", " ", "1", "2", ".", "5">>
F5 == <<" ", " ", " ", " ", " ", "5">>
FNeg0 == <<" ", " ", " ", " ", "-", "0">>
FPlus5 == <<" ", " ", " ", "+", "5", " ">>
FNonBlank == <<"1", ".", "5", " ", " ", " ">>
FBad == <<"a", "b", "c", " ", " ", " ">>

\* starts with "DCIR"; as a data line it qualifies, with bar2 = 200
DcirLine == MkLine(<<"D", "C", "I", "R", " ", " ">>, <<"2", "0", "0", " ", " ">>, "T", Sp(6), F500, Sp(6), FNeg5, <<"|", "|">>)

\* starts with "99999"; qualifies as a 'T' line with bar1 = 99999 and bar2 = 200
TermLine == MkLine(<<"9", "9", "9", "9", "9", " ">>, <<"2", "0", "0", " ", " ">>, "T", Sp(6), F500, Sp(6), F125, <<"|", "|">>)

\* bar1 = 100, both windows blank, both sources numeric
MatchLine == MkLine(<<"1", "0", "0", " ", " ", " ">>, <<" ", " ", " ", " ", "8">>, "T", Sp(6), F500, Sp(6), FNeg5, <<"|", "|">>)

\* bar1 = 7, bar2 = 8: in no target set
OtherLine == MkLine(<<" ", " ", " ", " ", " ", "7">>, <<" ", " ", " ", " ", "8">>, "T", Sp(6), F500, Sp(6), FNeg5, <<"|", "|">>)

\* 17 characters, 'T' at offset 16, bar1 = 100
ShortLine == <<"1", "0", "0", " ", " ", " ">> \o <<" ">> \o <<" ", " ", " ", " ", "8">> \o Sp(4) \o <<"T">>

EmptyLine == <<>>

CorePool == {DcirLine, TermLine, MatchLine, OtherLine, ShortLine, EmptyLine}

Bar1Fields == {<<"1", "0", "0", " ", " ", " ">>, <<" ", " ", " ", " ", " ", "7">>, FBad}
Bar2Fields == {<<"2", "0", "0", " ", " ">>, <<" ", " ", " ", " ", "8">>, <<" ", "x", " ", " ", " ">>}
Markers == {"T", "X"}
AFields == {Sp(6), <<" ", "\t", " ", " ", " ", " ">>, FNonBlank}
BFields == {Sp(6), FNonBlank}
CFields == {F500, FBad, <<" ", " ", " ", "i", "n", "f">>, <<".", "9", "9", "9", "9", "9">>, FNeg5, <<" ", "9", "9", "9", "9", "9">>, F5, FNeg0}
DFields == {F125, <<" ", " ", "1", " ", "2", " ">>, <<" ", " ", " ", "n", "a", "n">>, FPlus5}
Tails == {<<>>, <<"|">>}

RichPool ==
  {MkLine(b1, b2, m, a, c, b, d, t) :
     b1 \in Bar1Fields, b2 \in Bar2Fields, m \in Markers, a \in AFields,
     c \in CFields, b \in BFields, d \in DFields, t \in Tails}

SeqsUpTo(S, n) == UNION {[1..k -> S] : k \in 0..n}

HeaderBlock == <<DcirLine, OtherLine, ShortLine>>

\* every sequence of at most MaxLines core lines, every sequence of fewer core
\* lines after a header block, and every rich line as the first data line,
\* followed by a matching line
Inputs ==
  SeqsUpTo(CorePool, MaxLines)
    \cup {HeaderBlock \o s : s \in SeqsUpTo(CorePool, MaxLines - 1)}
    \cup {HeaderBlock \o <<r, MatchLine>> : r \in RichPool}

-----------------------------------------------------------------------------
(* process_text_file as a state machine: one step per loop iteration *)

Init ==
  /\ lines \in Inputs
  /\ bar_list_set \in SUBSET TargetIds
  /\ idx = 0
  /\ output_lines = <<>>
  /\ found_dcir = FALSE
  /\ processing_data = FALSE
  /\ header_lines_remaining = 0
  /\ pc = "loop"
  /\ result = <<>>
  /\ trace = <<>>
  /\ calls = <<>>

line == lines[idx + 1]

InLoop == pc = "loop" /\ idx < Len(lines)

\* output_lines.append(l) and on to the next line; trace records the branch taken
Emit(l, branch) ==
  /\ output_lines' = Append(output_lines, l)
  /\ trace' = Append(trace, branch)
  /\ idx' = idx + 1
  /\ UNCHANGED <<lines, bar_list_set, result, calls>>

\* a data-branch iteration: the exception leaves the function, or the line is emitted
DataEmit(l, branch) ==
  IF Faults(line, bar_list_set)
    THEN /\ pc' = "error"
         /\ UNCHANGED <<lines, bar_list_set, result, output_lines, trace, idx, calls>>
    ELSE /\ pc' = pc
         /\ Emit(l, branch)

\* Mutant of PreHeaderDcir: a "DCIR" line met in the data state starts a new
\* header block (the test is made whenever no header line is pending).
PreHeaderDcir_Restarts ==
  /\ InLoop
  /\ ~found_dcir \/ header_lines_remaining = 0
  /\ StartsWith(line, <<"D", "C", "I", "R">>)
  /\ found_dcir' = TRUE
  /\ header_lines_remaining' = 2
  /\ Emit(line, "dcir")
  /\ UNCHANGED <<processing_data, pc>>

\* Mutant of PreHeaderDcir: the header block is 1 line long.
PreHeaderDcir_OneHeaderLine ==
  /\ InLoop
  /\ ~found_dcir
  /\ StartsWith(line, <<"D", "C", "I", "R">>)
  /\ found_dcir' = TRUE
  /\ header_lines_remaining' = 1
  /\ Emit(line, "dcir")
  /\ UNCHANGED <<processing_data, pc>>

PreHeaderDcir ==
  /\ InLoop
  /\ ~found_dcir
  /\ StartsWith(line, <<"D", "C", "I", "R">>)
  /\ found_dcir' = TRUE
  /\ header_lines_remaining' = 2
  /\ Emit(line, "dcir")
  /\ UNCHANGED <<processing_data, pc>>

\* Mutant of PreHeaderCopy: the preamble already gets the data-line rewrite.
PreHeaderCopy_Rewrites ==
  /\ InLoop
  /\ ~found_dcir
  /\ ~StartsWith(line, <<"D", "C", "I", "R">>)
  /\ Emit(IF IsTLine(line) /\ bar_match(line, bar_list_set) THEN ModifiedLine(line) ELSE line,
          "pre")
  /\ UNCHANGED <<found_dcir, header_lines_remaining, processing_data, pc>>

PreHeaderCopy ==
  /\ InLoop
  /\ ~found_dcir
  /\ ~StartsWith(line, <<"D", "C", "I", "R">>)
  /\ Emit(line, "pre")
  /\ UNCHANGED <<found_dcir, header_lines_remaining, processing_data, pc>>

\* Mutant of HeaderCopy: processing_data is not set after the last header line.
HeaderCopy_NoFlag ==
  /\ InLoop
  /\ found_dcir
  /\ header_lines_remaining > 0
  /\ header_lines_remaining' = header_lines_remaining - 1
  /\ processing_data' = processing_data
  /\ Emit(line, "header")
  /\ UNCHANGED <<found_dcir, pc>>

HeaderCopy ==
  /\ InLoop
  /\ found_dcir
  /\ header_lines_remaining > 0
  /\ header_lines_remaining' = header_lines_remaining - 1
  /\ processing_data' = IF header_lines_remaining - 1 = 0 THEN TRUE ELSE processing_data
  /\ Emit(line, "header")
  /\ UNCHANGED <<found_dcir, pc>>

InData == InLoop /\ found_dcir /\ ~(header_lines_remaining > 0)

IsTerminator(l) == StartsWith(l, <<"9", "9", "9", "9", "9">>)

\* Mutant of Terminator: the terminator line is copied and the loop goes on.
Terminator_NoBreak ==
  /\ InData
  /\ IsTerminator(line)
  /\ Emit(line, "term")
  /\ UNCHANGED <<found_dcir, header_lines_remaining, processing_data, pc>>

Terminator ==
  /\ InData
  /\ IsTerminator(line)
  /\ LET current_line_index == ListIndex(lines, line)
     IN output_lines' = Append(output_lines, line) \o SliceFrom(lines, current_line_index + 1)
  /\ trace' = Append(trace, "term")
  /\ idx' = idx + 1
  /\ pc' = "break"
  /\ UNCHANGED <<lines, bar_list_set, result, found_dcir, header_lines_remaining,
                 processing_data, calls>>

DataRewrite ==
  /\ InData
  /\ ~IsTerminator(line)
  /\ IsTLine(line)
  /\ bar_match(line, bar_list_set)
  /\ DataEmit(ModifiedLine(line), "match")
  /\ UNCHANGED <<found_dcir, header_lines_remaining, processing_data>>

\* Mutant of DataNoMatch: the rewrite is not guarded by bar_match.
DataNoMatch_Rewrites ==
  /\ InData
  /\ ~IsTerminator(line)
  /\ IsTLine(line)
  /\ ~bar_match(line, bar_list_set)
  /\ DataEmit(ModifiedLine(line), "nomatch")
  /\ UNCHANGED <<found_dcir, header_lines_remaining, processing_data>>

DataNoMatch ==
  /\ InData
  /\ ~IsTerminator(line)
  /\ IsTLine(line)
  /\ ~bar_match(line, bar_list_set)
  /\ DataEmit(line, "nomatch")
  /\ UNCHANGED <<found_dcir, header_lines_remaining, processing_data>>

DataOther ==
  /\ InData
  /\ ~IsTerminator(line)
  /\ ~IsTLine(line)
  /\ DataEmit(line, "other")
  /\ UNCHANGED <<found_dcir, header_lines_remaining, processing_data>>

Return ==
  /\ \/ pc = "loop" /\ idx = Len(lines)
     \/ pc = "break"
  /\ result' = Join(output_lines)
  /\ pc' = "done"
  /\ UNCHANGED <<lines, bar_list_set, idx, output_lines, found_dcir, processing_data,
                 header_lines_remaining, trace, calls>>

Next ==
  \/ PreHeaderDcir
  \/ PreHeaderCopy
  \/ HeaderCopy
  \/ Terminator
  \/ DataRewrite
  \/ DataNoMatch
  \/ DataOther
  \/ Return

Spec == Init /\ [][Next]_vars

-----------------------------------------------------------------------------
(* A second call of process_text_file after the first has returned *)

\* the returned call, as the caller saw it
Returned ==
  [lines |-> lines, ids |-> bar_list_set, output_lines |-> output_lines,
   result |-> result, trace |-> trace]

\* Mutant of Enter: found_dcir lives across calls (a module-level flag).
Enter_KeepsFlag(ls, ids) ==
  /\ lines' = ls
  /\ bar_list_set' = ids
  /\ idx' = 0
  /\ output_lines' = <<>>
  /\ found_dcir' = found_dcir
  /\ processing_data' = FALSE
  /\ header_lines_remaining' = 0
  /\ pc' = "loop"
  /\ result' = <<>>
  /\ trace' = <<>>

\* entry of a call: the arguments and the fresh locals of lines 34-39
Enter(ls, ids) ==
  /\ lines' = ls
  /\ bar_list_set' = ids
  /\ idx' = 0
  /\ output_lines' = <<>>
  /\ found_dcir' = FALSE
  /\ processing_data' = FALSE
  /\ header_lines_remaining' = 0
  /\ pc' = "loop"
  /\ result' = <<>>
  /\ trace' = <<>>

\* process_text_file(first result, same set)
CallOnOutput ==
  /\ pc = "done"
  /\ calls = <<>>
  /\ calls' = <<Returned>>
  /\ Enter(SplitLines(result), bar_list_set)

\* process_text_file(same text, same set)
CallSame ==
  /\ pc = "done"
  /\ calls = <<>>
  /\ calls' = <<Returned>>
  /\ Enter(lines, bar_list_set)

NextCalls ==
  \/ Next
  \/ CallOnOutput
  \/ CallSame

\* the inputs of a first call that is followed by a second one
InputsCalls ==
  SeqsUpTo(CorePool, MaxLines)
    \cup {HeaderBlock \o s : s \in SeqsUpTo(CorePool, MaxLines - 2)}
    \cup {HeaderBlock \o <<r, MatchLine>> : r \in RichPool}

InitCalls == Init /\ lines \in InputsCalls

SpecCalls == InitCalls /\ [][NextCalls]_vars

-----------------------------------------------------------------------------
(* Vocabulary of the properties.  Position i of trace, lines and output_lines  *)
(* belongs to the i-th loop iteration: every iteration appends one entry to    *)
(* trace and (before the break) one line to output_lines.                      *)

Visited == 1..Len(trace)

IsDcir(l) == Len(l) >= 4 /\ l[1] = "D" /\ l[2] = "C" /\ l[3] = "I" /\ l[4] = "R"

Is99999(l) == Len(l) >= 5 /\ \A k \in 1..5 : l[k] = "9"

NoDcir == \A i \in 1..Len(lines) : ~IsDcir(lines[i])

WindowA(l) == SubSeq(l, 18, 23)
WindowC(l) == SubSeq(l, 24, 29)
WindowB(l) == SubSeq(l, 30, 35)
WindowD(l) == SubSeq(l, 36, 41)

Blank(w) == \A k \in 1..Len(w) : w[k] = " " \/ w[k] = "\t"

Numeric(w) == ParseFloat(rtrim(w)).ok

\* the 6 characters a window receives from source window w
Recomputed(w) ==
  LET f == format_float_custom(Div50(ParseFloat(rtrim(w))))
  IN f \o [k \in 1..(6 - Len(f)) |-> " "]

\* the iteration ran in the data state
InDataState(i) == trace[i] \in {"term", "match", "nomatch", "other"}

\* the line is a data line of the 'T' pattern
Qualifies(l) == Len(l) >= 42 /\ l[17] = "T"

-----------------------------------------------------------------------------
\* C1: the output has exactly as many lines as the input, and output line i is
\* produced from input line i (it is input line i or its rewrite), for every
\* placement of the "DCIR" and "99999" lines.
C1_SameLinesInOrder ==
  pc = "done" =>
    /\ Len(output_lines) = Len(lines)
    /\ \A i \in 1..Len(lines) : output_lines[i] \in {lines[i], ModifiedLine(lines[i])}

\* C2: once a "99999" line is reached in the data state, the output from that
\* position on is exactly that line followed by the input lines after it.
C2_TerminatorShortCircuit ==
  \A k \in Visited :
    trace[k] = "term" =>
      SubSeq(output_lines, k, Len(output_lines)) = SubSeq(lines, k, Len(lines))

\* C3: an input without any line starting with "DCIR" is returned line for line,
\* whatever the target identifiers, "99999" lines and rewritable lines in it.
C3_PassThroughWithoutHeader ==
  NoDcir =>
    /\ output_lines = SubSeq(lines, 1, Len(trace))
    /\ pc = "done" => output_lines = lines /\ result = Join(lines)

C3_Witness ==
  /\ pc = "done"
  /\ NoDcir
  /\ 100 \in bar_list_set
  /\ \E i, j \in 1..Len(lines) :
       /\ Is99999(lines[i])
       /\ i < j
       /\ lines[j] = MatchLine
       /\ ModifiedLine(lines[j]) # lines[j]

\* C4: the first line starting with "DCIR" and the 2 lines after it are copied
\* unchanged and in order, whatever the 2 lines hold: they are taken by the
\* header branch, never by the terminator, the header start or the rewrite.
C4_HeaderPreserved ==
  \A k \in 1..Len(lines) :
    (IsDcir(lines[k]) /\ \A j \in 1..(k - 1) : ~IsDcir(lines[j])) =>
      /\ \A j \in k..(k + 2) :
           j \in Visited =>
             /\ output_lines[j] = lines[j]
             /\ trace[j] = IF j = k THEN "dcir" ELSE "header"
      /\ pc = "done" => \A j \in k..(k + 2) : j <= Len(lines) => j \in Visited

C4_Witness ==
  /\ pc = "done"
  /\ Len(lines) >= 4
  /\ IsDcir(lines[1])
  /\ Is99999(lines[2])
  /\ IsDcir(lines[3]) /\ Qualifies(lines[3]) /\ bar_match(lines[3], bar_list_set)
  /\ ModifiedLine(lines[3]) # lines[3]
  /\ output_lines[4] # lines[4]

\* C5: a record-number field that fails to parse contributes no match: a
\* qualifying data line matches exactly through a field that parsed and is in
\* target_ids, and a line whose two fields both fail is emitted unchanged.
C5_ParseFailureNeverMatches ==
  \A i \in Visited :
    trace[i] \in {"match", "nomatch"} =>
      LET p1 == ParseInt(SubSeq(lines[i], 1, 6))
          p2 == ParseInt(SubSeq(lines[i], 8, 12))
      IN /\ trace[i] = "match" <=>
              \/ p1.ok /\ p1.val \in bar_list_set
              \/ p2.ok /\ p2.val \in bar_list_set
         /\ (~p1.ok /\ ~p2.ok) => output_lines[i] = lines[i]

\* C6: an emitted line has the length of its input line and equals it at every
\* offset outside window A (17..22) and window B (29..34).
C6_RewriteFrame ==
  \A i \in Visited :
    /\ Len(output_lines[i]) = Len(lines[i])
    /\ \A k \in 1..Len(lines[i]) :
         (k \notin 18..23 /\ k \notin 30..35) => output_lines[i][k] = lines[i][k]

C6_Witness ==
  \E i \in Visited :
    /\ trace[i] = "match"
    /\ WindowA(output_lines[i]) = <<"i", "n", "f", " ", " ", " ">>
    /\ WindowA(lines[i]) # WindowA(output_lines[i])
    /\ WindowB(lines[i]) # WindowB(output_lines[i])

\* C7: a qualifying data-state line whose decoded bar1 and bar2 are both
\* outside target_ids is emitted identically; with an empty target_ids every
\* line is emitted identically.
C7_NonMatchingUntouched ==
  \A i \in Visited :
    /\ ( /\ InDataState(i)
         /\ Qualifies(lines[i])
         /\ bar1(lines[i]) \notin bar_list_set
         /\ bar2(lines[i]) \notin bar_list_set ) => output_lines[i] = lines[i]
    /\ bar_list_set = {} => output_lines[i] = lines[i]

C7_Witness ==
  \E i \in Visited :
    /\ trace[i] = "nomatch"
    /\ bar_list_set # {}
    /\ Blank(WindowA(lines[i])) /\ Numeric(WindowC(lines[i]))
    /\ Blank(WindowB(lines[i])) /\ Numeric(WindowD(lines[i]))

C9_MalformedField ==
  \A i \in Visited :
    trace[i] = "match" =>
      LET l == lines[i]
          o == output_lines[i]
          malformedA == Blank(WindowA(l)) /\ ~Numeric(WindowC(l))
          malformedB == Blank(WindowB(l)) /\ ~Numeric(WindowD(l))
      IN /\ malformedA =>
              /\ WindowA(o) = WindowA(l)
              /\ (Blank(WindowB(l)) /\ Numeric(WindowD(l))) => WindowB(o) = Recomputed(WindowD(l))
         /\ malformedB =>
              /\ WindowB(o) = WindowB(l)
              /\ (Blank(WindowA(l)) /\ Numeric(WindowC(l))) => WindowA(o) = Recomputed(WindowC(l))
         /\ (malformedA \/ malformedB) =>
              /\ pc # "error"
              /\ pc = "done" => (Len(trace) = Len(lines) \/ trace[Len(trace)] = "term")
              /\ \A j \in (i + 1)..Len(trace) :
                   ( /\ InDataState(j) /\ ~Is99999(lines[j]) /\ Qualifies(lines[j])
                     /\ bar_match(lines[j], bar_list_set)
                     /\ Blank(WindowA(lines[j])) /\ Numeric(WindowC(lines[j])) )
                     => WindowA(output_lines[j]) = Recomputed(WindowC(lines[j]))

C9_Witness ==
  /\ pc = "done"
  /\ \E i \in Visited :
       /\ trace[i] = "match"
       /\ Blank(WindowA(lines[i])) /\ ~Numeric(WindowC(lines[i]))
       /\ WindowA(output_lines[i]) = WindowA(lines[i])
       /\ WindowB(output_lines[i]) # WindowB(lines[i])
       /\ \E j \in (i + 1)..Len(trace) :
            trace[j] = "match" /\ WindowA(output_lines[j]) # WindowA(lines[j])

\* C10: the call never ends in an exception and visits each input line at most
\* once: every step either moves on to the next line (or breaks out at the
\* terminator) or returns, the loop never runs past the input, and the call
\* returns only after the last line or the terminator, with the joined output,
\* which holds at least one line per input line.
C10_NoFailure ==
  /\ [](/\ pc \in {"loop", "break", "done"}
        /\ Len(trace) = idx
        /\ idx <= Len(lines)
        /\ pc = "break" => trace[idx] = "term"
        /\ pc = "done" =>
             /\ idx = Len(lines) \/ trace[idx] = "term"
             /\ result = Join(output_lines)
             /\ Len(output_lines) >= Len(lines))
  /\ [][(idx' = idx + 1 /\ pc' \in {"loop", "break"}) \/ (idx' = idx /\ pc' = "done")]_vars

C10_Witness ==
  /\ pc = "done"
  /\ \A i \in Visited : trace[i] # "term"
  /\ \E i \in Visited : trace[i] = "other" /\ Len(lines[i]) <= 16
  /\ \E i \in Visited : trace[i] = "other" /\ Len(lines[i]) = 17 /\ lines[i][17] = "T"

-----------------------------------------------------------------------------
(* Two calls in a row *)

\* the second call runs on the text the first call returned
SecondOnOutput == calls # <<>> /\ lines = SplitLines(calls[1].result)

\* the first call emitted one line per input line
FirstKeptSequence == Len(calls[1].output_lines) = Len(calls[1].lines)

DropFinalEmpty(ls) ==
  IF Len(ls) > 0 /\ ls[Len(ls)] = <<>> THEN SubSeq(ls, 1, Len(ls) - 1) ELSE ls

\* a window the first call rewrote is not blank and the second call, on the
\* first call's output, emits it as it is
RewrittenWindowsStay ==
  \A i \in 1..Len(calls[1].trace) :
    calls[1].trace[i] = "match" =>
      LET was == calls[1].lines[i]
          now == calls[1].output_lines[i]
      IN /\ WindowA(now) # WindowA(was) =>
              /\ ~Blank(WindowA(now))
              /\ i \in Visited => WindowA(output_lines[i]) = WindowA(now)
         /\ WindowB(now) # WindowB(was) =>
              /\ ~Blank(WindowB(now))
              /\ i \in Visited => WindowB(output_lines[i]) = WindowB(now)

\* C11 as stated: a second pass on the output of the first leaves every
\* rewritten window unchanged, and when the first pass kept the line sequence
\* the second pass changes nothing at all (it returns the text it was given).
C11_SecondPassChangesNothing ==
  SecondOnOutput =>
    /\ RewrittenWindowsStay
    /\ (pc = "done" /\ FirstKeptSequence) => result = calls[1].result

\* C11 as amended: a second pass on the output of the first leaves every
\* rewritten window unchanged, and when the first pass kept the line sequence
\* the second pass emits every line it reads unchanged; these are the lines of
\* the first output except an empty last line, whose line feed is not returned.
C11_SecondPass ==
  SecondOnOutput =>
    /\ RewrittenWindowsStay
    /\ FirstKeptSequence =>
         /\ lines = DropFinalEmpty(calls[1].output_lines)
         /\ output_lines = SubSeq(lines, 1, Len(output_lines))
         /\ pc = "done" => output_lines = lines /\ result = Join(lines)

C11_Witness ==
  /\ pc = "done"
  /\ SecondOnOutput
  /\ FirstKeptSequence
  /\ calls[1].output_lines # calls[1].lines
  /\ result # calls[1].result
  /\ \E i \in Visited :
       /\ i <= Len(calls[1].trace)
       /\ calls[1].trace[i] = "match"
       /\ trace[i] = "match"
       /\ WindowA(calls[1].output_lines[i]) # WindowA(calls[1].lines[i])
       /\ WindowB(calls[1].output_lines[i]) # WindowB(calls[1].lines[i])

-----------------------------------------------------------------------------
FirstDcirAt(k) == IsDcir(lines[k]) /\ \A j \in 1..(k - 1) : ~IsDcir(lines[j])

\* C12: header detection is one-shot: one "DCIR" line starts a header block and
\* exactly its 2 following lines are skipped; a later line starting with "DCIR"
\* is an ordinary data line (rewritten if it qualifies and matches), the header
\* counter stays 0, and the 2 lines after it are data lines under the
\* terminator and rewrite rules.
C12_HeaderOneShot ==
  /\ Cardinality({i \in Visited : trace[i] = "dcir"}) <= 1
  /\ Cardinality({i \in Visited : trace[i] = "header"}) <= 2
  /\ \A k \in 1..Len(lines) :
       FirstDcirAt(k) =>
         /\ idx >= k + 2 => header_lines_remaining = 0
         /\ \A i \in Visited :
              /\ trace[i] = "dcir" <=> i = k
              /\ trace[i] = "header" <=> i \in {k + 1, k + 2}
         /\ \A i \in Visited :
              (i > k + 2 /\ IsDcir(lines[i])) =>
                /\ trace[i] \in {"match", "nomatch", "other"}
                /\ trace[i] = "match" <=>
                     Qualifies(lines[i]) /\ bar_match(lines[i], bar_list_set)
                /\ ( /\ trace[i] = "match"
                     /\ Blank(WindowA(lines[i]))
                     /\ Numeric(WindowC(lines[i])) ) =>
                       WindowA(output_lines[i]) = Recomputed(WindowC(lines[i]))
                /\ \A j \in {i + 1, i + 2} :
                     j \in Visited =>
                       /\ InDataState(j)
                       /\ trace[j] = "term" <=> Is99999(lines[j])
                       /\ trace[j] = "match" <=>
                            /\ ~Is99999(lines[j])
                            /\ Qualifies(lines[j])
                            /\ bar_match(lines[j], bar_list_set)

C12_Witness ==
  /\ pc = "done"
  /\ \E k \in 1..Len(lines) :
       /\ FirstDcirAt(k)
       /\ \E i \in Visited :
            /\ i > k + 2
            /\ IsDcir(lines[i])
            /\ trace[i] = "match"
            /\ output_lines[i] # lines[i]
            /\ i + 2 \in Visited
            /\ trace[i + 1] = "match"
            /\ output_lines[i + 1] # lines[i + 1]
            /\ trace[i + 2] = "term"

-----------------------------------------------------------------------------
\* the window holds a decimal integer: optional sign and digits, spaces around
IsInteger(w) == ParseInt(w).ok

IntegerOf(w) == ParseInt(w).val

\* the window holds an integer written with a minus sign (this includes "-0")
MinusSigned(w) == IsNeg(Strip(w))

\* First 6 characters of the fixed-point text, 6 digits after the point, of
\* n / 50: |n| / 50 has the integer part |n| div 50 and the fraction
\* 2 * (|n| mod 50) hundredths.
First6OfFiftieth(n, minus) ==
  LET a == IF n < 0 THEN 0 - n ELSE n
      text == (IF minus THEN <<"-">> ELSE <<>>) \o IntDigits(a \div 50) \o <<".">>
                \o FixedDigits(2 * (a % 50), 2) \o <<"0", "0", "0", "0">>
  IN SubSeq(text, 1, 6)

\* the examples of the rule
FormattingExamples ==
  /\ First6OfFiftieth(500, FALSE) = <<"1", "0", ".", "0", "0", "0">>
  /\ First6OfFiftieth(5, FALSE) = <<"0", ".", "1", "0", "0", "0">>
  /\ First6OfFiftieth(0 - 5, TRUE) = <<"-", "0", ".", "1", "0", "0">>
  /\ First6OfFiftieth(99999, FALSE) = <<"1", "9", "9", "9", ".", "9">>

\* C13 as stated: on a matching data line a blank window A next to a window C
\* holding the integer N becomes the first 6 characters of N / 50 written with
\* 6 decimals, the sign being that of the number N; likewise D to B.
C13_IntegerFormatting ==
  /\ FormattingExamples
  /\ \A i \in Visited :
       trace[i] = "match" =>
         /\ (Blank(WindowA(lines[i])) /\ IsInteger(WindowC(lines[i]))) =>
              WindowA(output_lines[i]) =
                First6OfFiftieth(IntegerOf(WindowC(lines[i])), IntegerOf(WindowC(lines[i])) < 0)
         /\ (Blank(WindowB(lines[i])) /\ IsInteger(WindowD(lines[i]))) =>
              WindowB(output_lines[i]) =
                First6OfFiftieth(IntegerOf(WindowD(lines[i])), IntegerOf(WindowD(lines[i])) < 0)

\* C13, amended: the same rule, the sign being the minus sign written in the
\* source window, so that a window holding "-0" gives "-0.000".
C13_IntegerFormattingSigned ==
  /\ FormattingExamples
  /\ \A i \in Visited :
       trace[i] = "match" =>
         /\ (Blank(WindowA(lines[i])) /\ IsInteger(WindowC(lines[i]))) =>
              WindowA(output_lines[i]) =
                First6OfFiftieth(IntegerOf(WindowC(lines[i])), MinusSigned(WindowC(lines[i])))
         /\ (Blank(WindowB(lines[i])) /\ IsInteger(WindowD(lines[i]))) =>
              WindowB(output_lines[i]) =
                First6OfFiftieth(IntegerOf(WindowD(lines[i])), MinusSigned(WindowD(lines[i])))

C13_Witness ==
  /\ pc = "done"
  /\ \E i \in Visited :
       /\ trace[i] = "match"
       /\ Blank(WindowA(lines[i]))
       /\ WindowC(lines[i]) = FNeg5
       /\ WindowA(output_lines[i]) = <<"-", "0", ".", "1", "0", "0">>
       /\ Blank(WindowB(lines[i]))
       /\ WindowD(lines[i]) = FPlus5
       /\ WindowB(output_lines[i]) = <<"0", ".", "1", "0", "0", "0">>

-----------------------------------------------------------------------------
\* the running call is a second call made with the arguments of the first
SecondOnSameArgs ==
  calls # <<>> /\ lines = calls[1].lines /\ bar_list_set = calls[1].ids

\* a call made after another one starts from the state a call made alone starts from
EntersFresh ==
  calls' # calls =>
    /\ idx' = 0
    /\ output_lines' = <<>>
    /\ found_dcir' = FALSE
    /\ processing_data' = FALSE
    /\ header_lines_remaining' = 0

SameArgsSameRun ==
  (SecondOnSameArgs /\ pc = "done") =>
    /\ result = calls[1].result
    /\ output_lines = calls[1].output_lines
    /\ trace = calls[1].trace

\* C14: purity: no step changes the target-identifier set, a call made after
\* another call starts from the same fresh locals as a call made alone, and a
\* second call with the arguments of the first returns the result of the first.
C14_Purity ==
  /\ []SameArgsSameRun
  /\ [][bar_list_set' = bar_list_set /\ EntersFresh]_vars

C14_Witness ==
  /\ SecondOnSameArgs
  /\ pc = "done"
  /\ result = calls[1].result
  /\ output_lines # lines
  /\ "dcir" \in {trace[i] : i \in Visited}
  /\ "match" \in {trace[i] : i \in Visited}

-----------------------------------------------------------------------------
\* line i lies after the 2-line header block of the first "DCIR" line
AfterHeader(i) == \E k \in 1..Len(lines) : FirstDcirAt(k) /\ i > k + 2

HasT(l) == Len(l) >= 17 /\ l[17] = "T"

\* C15: a line read in the data state that is shorter than 42 characters, or
\* whose character at offset 16 is not 'T', is emitted unchanged, whatever its
\* bar fields and windows hold; a line of exactly 41 characters is such a line.
C15_ShortOrNotTUnchanged ==
  \A i \in Visited :
    (AfterHeader(i) /\ (Len(lines[i]) < 42 \/ ~HasT(lines[i]))) =>
      /\ trace[i] \in {"other", "term"}
      /\ trace[i] = "term" <=> Is99999(lines[i])
      /\ output_lines[i] = lines[i]

C15_Witness ==
  /\ pc = "done"
  /\ \E i \in Visited :
       /\ AfterHeader(i)
       /\ Len(lines[i]) = 41
       /\ HasT(lines[i])
       /\ bar_match(lines[i], bar_list_set)
       /\ Blank(WindowA(lines[i])) /\ Numeric(WindowC(lines[i]))
       /\ Blank(WindowB(lines[i])) /\ Numeric(WindowD(lines[i]))
       /\ output_lines[i] = lines[i]
       /\ i + 1 \in Visited
       /\ trace[i + 1] = "match"
       /\ output_lines[i + 1] # lines[i + 1]

-----------------------------------------------------------------------------
Bar1Field(l) == SubSeq(l, 1, 6)
Bar2Field(l) == SubSeq(l, 8, 12)

\* the field holds an integer that is in the target set
InIds(f) == ParseInt(f).ok /\ ParseInt(f).val \in bar_list_set

\* both windows of output line i are as a matching line has them
RewrittenAsMatching(i) ==
  /\ (Blank(WindowA(lines[i])) /\ Numeric(WindowC(lines[i]))) =>
       WindowA(output_lines[i]) = Recomputed(WindowC(lines[i]))
  /\ (Blank(WindowB(lines[i])) /\ Numeric(WindowD(lines[i]))) =>
       WindowB(output_lines[i]) = Recomputed(WindowD(lines[i]))

\* C16: the match is a disjunction: a qualifying data-state line whose bar1 or
\* whose bar2 is in target_ids is a matching line and its blank windows are
\* rewritten, one bar alone being enough; a matching line whose two bar fields
\* are integers has one of them in target_ids.
C16_MatchIsDisjunction ==
  \A i \in Visited :
    (AfterHeader(i) /\ Qualifies(lines[i]) /\ ~Is99999(lines[i])) =>
      /\ (InIds(Bar1Field(lines[i])) \/ InIds(Bar2Field(lines[i]))) =>
           trace[i] = "match" /\ RewrittenAsMatching(i)
      /\ ( /\ trace[i] = "match"
           /\ ParseInt(Bar1Field(lines[i])).ok
           /\ ParseInt(Bar2Field(lines[i])).ok ) =>
             InIds(Bar1Field(lines[i])) \/ InIds(Bar2Field(lines[i]))

C16_Witness ==
  /\ pc = "done"
  /\ 0 \notin bar_list_set
  /\ \E i \in Visited :
       /\ AfterHeader(i)
       /\ Qualifies(lines[i])
       /\ ~ParseInt(Bar1Field(lines[i])).ok
       /\ InIds(Bar2Field(lines[i]))
       /\ Blank(WindowA(lines[i])) /\ Numeric(WindowC(lines[i]))
       /\ WindowA(output_lines[i]) = Recomputed(WindowC(lines[i]))
       /\ ~Blank(WindowA(output_lines[i]))
       /\ i + 1 \in Visited
       /\ Qualifies(lines[i + 1])
       /\ InIds(Bar1Field(lines[i + 1]))
       /\ ~InIds(Bar2Field(lines[i + 1]))
       /\ Blank(WindowA(lines[i + 1]))
       /\ ~Blank(WindowA(output_lines[i + 1]))

-----------------------------------------------------------------------------
\* line i lies strictly before the first data-state line starting with "99999"
BeforeTerminator(i) == \A j \in 1..i : ~(AfterHeader(j) /\ Is99999(lines[j]))

\* the output lines past the visited ones are input lines copied as they are
TailCopied ==
  Len(output_lines) > Len(trace) =>
    \E m \in 1..Len(trace) :
      /\ lines[m] = lines[Len(trace)]
      /\ SubSeq(output_lines, Len(trace), Len(output_lines)) = SubSeq(lines, m, Len(lines))

\* C17: an output line differs from the input line it was produced from only if
\* that line lies after the 2-line header block of the first "DCIR" line and
\* before the first data-state line starting with "99999"; with no "DCIR"
\* line, or fewer than 2 lines after the first one, the output is the input.
C17_RewritingConfined ==
  /\ \A i \in Visited :
       output_lines[i] # lines[i] => AfterHeader(i) /\ BeforeTerminator(i)
  /\ TailCopied
  /\ ( /\ pc = "done"
       /\ \/ NoDcir
          \/ \E k \in 1..Len(lines) : FirstDcirAt(k) /\ Len(lines) - k < 2 ) =>
         output_lines = lines

C17_Witness ==
  /\ pc = "done"
  /\ Len(output_lines) = Len(lines)
  /\ \E i \in Visited :
       /\ output_lines[i] # lines[i]
       /\ trace[Len(trace)] = "term"
       /\ i < Len(trace)
       /\ \E j \in (Len(trace) + 1)..Len(lines) :
            /\ lines[j] = lines[i]
            /\ output_lines[j] = lines[j]

-----------------------------------------------------------------------------
HeaderLinesConsumed == Cardinality({i \in Visited : trace[i] = "header"})

LoopStateInvariant ==
  /\ header_lines_remaining \in {0, 1, 2}
  /\ header_lines_remaining > 0 => found_dcir
  /\ processing_data <=> (found_dcir /\ header_lines_remaining = 0)
  /\ processing_data => HeaderLinesConsumed = 2
  /\ found_dcir => HeaderLinesConsumed = 2 - header_lines_remaining

\* the step runs the terminator test (and, past it, the data branches)
RunsTerminatorTest ==
  /\ Len(trace') = Len(trace) + 1
  /\ trace'[Len(trace')] \in {"term", "match", "nomatch", "other"}

\* C18: in every state of the scanning loop header_lines_remaining is 0, 1 or
\* 2, it is positive only once found_dcir is set, and processing_data is TRUE
\* exactly when found_dcir is TRUE and the 2 header lines are consumed;
\* found_dcir and processing_data never go back to FALSE, and the terminator
\* test and the rewrite branch run only in states where processing_data is TRUE.
C18_LoopStateInvariant ==
  /\ []LoopStateInvariant
  /\ [][ /\ found_dcir => found_dcir'
         /\ processing_data => processing_data'
         /\ RunsTerminatorTest => processing_data ]_vars

C18_Witness ==
  /\ pc = "loop"
  /\ processing_data
  /\ found_dcir
  /\ header_lines_remaining = 0
  /\ HeaderLinesConsumed = 2
  /\ Len(trace) > 0
  /\ trace[Len(trace)] = "match"
  /\ idx < Len(lines)

====
